---------------------------- MODULE Spec2Model ----------------------------
(***************************************************************************)
(* Coins: the circle-packing visualiser (src/app.py, the Streamlit page,  *)
(* and src/plot_packing.py, the stand-alone plot script).                  *)
(*                                                                         *)
(* Numbers.  The code computes in IEEE-754 binary floating point.  The     *)
(* model counts in ticks of 1/2048 (1.0 = 2048 ticks) and rounds every     *)
(* arithmetic result to Prec significant bits, half to even, as the        *)
(* hardware does with 53.  Every literal of the code (0.5, 1.0, 10.0) is   *)
(* exact in both.  All quantities are even numbers of ticks, so that the   *)
(* halving in plot_circles is exact, as it is in binary floating point.    *)
(***************************************************************************)
EXTENDS Integers, Sequences, FiniteSets

\* ------------------------------------------------------------- constants

\* src/app.py:8  SQUARE_SIDE = 10.0
SQUARE_SIDE == 20480
\* src/app.py:9  CIRCLE_DIAMETER = 1.0
CIRCLE_DIAMETER == 2048
\* src/app.py:10  CIRCLE_RADIUS = CIRCLE_DIAMETER / 2.0
CIRCLE_RADIUS == CIRCLE_DIAMETER \div 2
\* src/app.py:38  row_height = np.sqrt(3) / 2 * CIRCLE_DIAMETER  (0.8660... -> 1774/2048)
row_height == 1774
\* src/app.py:24-25  range(10) rows, range(10) columns
GRID_N == 10
\* src/app.py:40  num_rows = 11
num_rows == 11
\* src/app.py:45  num_circles_long_row = 10
num_circles_long_row == 10
\* src/app.py:46  num_circles_short_row = 9
num_circles_short_row == 9
\* src/app.py:100 and src/plot_packing.py:21  the expected number of rows
EXPECTED_COUNT == 106
\* src/plot_packing.py:14  SOLUTION_SIDE_MINIMAL = 9.697932828
SOLUTION_SIDE_MINIMAL == 19862

\* --------------------------------------------------------------- bounds

\* Significant bits of the floating-point format (53 in the code's float64).
Prec == 15
\* The longest coordinate file the user writes by hand, in lines.
MaxLines == 2

\* ------------------------------------------------------ float arithmetic

Abs(n) == IF n < 0 THEN -n ELSE n

Max(a, b) == IF a >= b THEN a ELSE b

Min(a, b) == IF a <= b THEN a ELSE b

RECURSIVE Quantum(_, _)
\* The spacing of the representable numbers around magnitude a.
Quantum(a, q) == IF a < (2 ^ Prec) * q THEN q ELSE Quantum(a, 2 * q)

\* Round to the nearest representable number, ties to the even significand.
Fl(n) ==
    LET a == Abs(n)
        q == Quantum(a, 1)
        lo == (a \div q) * q
        rem == a - lo
        r == IF 2 * rem < q THEN lo
             ELSE IF 2 * rem > q THEN lo + q
             ELSE IF (lo \div q) % 2 = 0 THEN lo ELSE lo + q
    IN  IF n < 0 THEN -r ELSE r

\* --------------------------------------------------- arrays of centers

\* The values of column k of an array
Column(s, k) == { s[i][k] : i \in 1 .. Len(s) }

\* np.min over column k of a non-empty array
SeqMin(s, k) == CHOOSE m \in Column(s, k) : \A v \in Column(s, k) : m <= v

\* np.max over column k of a non-empty array
SeqMax(s, k) == CHOOSE m \in Column(s, k) : \A v \in Column(s, k) : m >= v

\* ------------------------------------------------------------ generators

\* A slip in src/app.py:27: the half diameter is not added to x.
GridWithoutRadius ==
    [ coords |-> [ k \in 1 .. GRID_N * GRID_N |->
                     LET row == (k - 1) \div GRID_N
                         col == (k - 1) % GRID_N
                     IN  << Fl(col * CIRCLE_DIAMETER),
                            Fl(Fl(row * CIRCLE_DIAMETER) + CIRCLE_RADIUS) >> ],
      side |-> SQUARE_SIDE ]

\* src/app.py:21-31
generate_coords_100_circles ==
    [ coords |-> [ k \in 1 .. GRID_N * GRID_N |->
                     LET row == (k - 1) \div GRID_N
                         col == (k - 1) % GRID_N
                     IN  << Fl(Fl(col * CIRCLE_DIAMETER) + CIRCLE_RADIUS),
                            Fl(Fl(row * CIRCLE_DIAMETER) + CIRCLE_RADIUS) >> ],
      side |-> SQUARE_SIDE ]

\* A slip in src/app.py:49: the odd rows are taken for the long ones.
HexRowOddLong(i) ==
    LET is_long_row == (i % 2 = 1)
        current_num_circles ==
            IF is_long_row THEN num_circles_long_row ELSE num_circles_short_row
        y_center == Fl(Fl(i * row_height) + CIRCLE_RADIUS)
    IN  [ jj \in 1 .. current_num_circles |->
            LET j == jj - 1
                x0 == Fl(Fl(j * CIRCLE_DIAMETER) + CIRCLE_RADIUS)
                x_center == IF ~is_long_row THEN Fl(x0 + CIRCLE_RADIUS) ELSE x0
            IN  << x_center, y_center >> ]

\* src/app.py:49-63: the circles of row i, left to right
HexRow(i) ==
    LET is_long_row == (i % 2 = 0)
        current_num_circles ==
            IF is_long_row THEN num_circles_long_row ELSE num_circles_short_row
        y_center == Fl(Fl(i * row_height) + CIRCLE_RADIUS)
    IN  [ jj \in 1 .. current_num_circles |->
            LET j == jj - 1
                x0 == Fl(Fl(j * CIRCLE_DIAMETER) + CIRCLE_RADIUS)
                x_center == IF ~is_long_row THEN Fl(x0 + CIRCLE_RADIUS) ELSE x0
            IN  << x_center, y_center >> ]

RECURSIVE HexRows(_)
\* src/app.py:48: rows 0 .. n-1 appended in order
HexRows(n) == IF n = 0 THEN << >> ELSE HexRows(n - 1) \o HexRow(n - 1)

\* src/app.py:33-65
generate_coords_105_circles ==
    LET total_packing_height ==
            Fl(Fl((num_rows - 1) * row_height) + CIRCLE_DIAMETER)
    IN  [ coords |-> HexRows(num_rows), side |-> total_packing_height ]

\* ------------------------------------------------------ the coordinate file

\* A token of a line: a number (in ticks) or text that is no number.
Num(v) == [num |-> TRUE, v |-> v]

Bad == [num |-> FALSE, v |-> 0]

\* "<index> <x> <y>", the format of src/app.py:86
RowLine(x, y) == << Num(1), Num(x), Num(y) >>

\* "<x> <y>", the format src/plot_packing.py:63 unpacks
PairLine(x, y) == << Num(x), Num(y) >>

\* A blank line, or one holding only a comment: it carries no token.
BlankLine == << >>

\* Raw centers the user's rows may hold: about -31.5, -1.0 and 3.0.
RowVals ==
    { << -2048, -2048 >>, << 6144, 6144 >>, << 6144, -2048 >>, << -64514, -64514 >> }

UserLines ==
    { RowLine(v[1], v[2]) : v \in RowVals }
        \cup { BlankLine,
               << Num(1), Bad, Num(6144) >>,
               << Num(1), Num(6144) >>,
               << Bad, Num(6144), Num(-2048) >>,
               << Num(1), Num(-2048), Num(6144), Bad >> }

\* A stand-in for the published table: 106 valid rows around the origin,
\* with 3 columns (index, x, y) or with 2 (x, y).
ReferenceLines(cols) ==
    [ i \in 1 .. EXPECTED_COUNT |->
        LET x == ((i - 1) % 10) * 1980 - 8910
            y == ((i - 1) \div 10) * 1780 - 8900
        IN  IF cols = 3 THEN RowLine(x, y) ELSE PairLine(x, y) ]

NoFile == [exists |-> FALSE, lines |-> << >>]

\* os.path.exists, src/app.py:74
Exists(f) == f.exists

\* os.path.getsize, src/app.py:80: a file with no line at all has no byte
GetSize(f) == Len(f.lines)

IsData(l) == Len(l) > 0

\* The lines np.loadtxt keeps: blank and comment-only lines are skipped.
DataLines(f) == SelectSeq(f.lines, IsData)

\* float(): the nearest representable number
ParseFloat(t) == Fl(t.v)

\* np.loadtxt(COORDS_106_FILE, ndmin=2, usecols=(1, 2)), src/app.py:87.
\* Only columns 1 and 2 are converted; a row without them, or with a token
\* there that is no number, raises.  With no data row the array is empty and
\* its width depends on the numpy build: emptyCols is 2 (numpy >= 1.23, the
\* width of usecols) or 1 (older builds).
LoadTxtUsecols(f, emptyCols) ==
    LET d == DataLines(f)
        good(l) == Len(l) >= 3 /\ l[2].num /\ l[3].num
    IN  IF \E i \in 1 .. Len(d) : ~good(d[i])
        THEN [raised |-> TRUE, rows |-> << >>, ncols |-> 0]
        ELSE [raised |-> FALSE,
              rows |-> [ i \in 1 .. Len(d) |->
                           << ParseFloat(d[i][2]), ParseFloat(d[i][3]) >> ],
              ncols |-> IF Len(d) = 0 THEN emptyCols ELSE 2]

\* src/app.py:103-112: shift so that the lowest, leftmost edge is at 0
AdjustCoords(raw_coords) ==
    LET min_x == SeqMin(raw_coords, 1)
        min_y == SeqMin(raw_coords, 2)
        shift_x == Fl(min_x - CIRCLE_RADIUS)
        shift_y == Fl(min_y - CIRCLE_RADIUS)
    IN  [ i \in 1 .. Len(raw_coords) |->
            << Fl(raw_coords[i][1] - shift_x), Fl(raw_coords[i][2] - shift_y) >> ]

\* A slip in src/app.py:120: the width is returned, whatever the height.
PackingSideWidthOnly(adjusted_coords) ==
    Fl(SeqMax(adjusted_coords, 1) + CIRCLE_RADIUS)

\* src/app.py:114-120
PackingSideActual(adjusted_coords) ==
    LET packing_width == Fl(SeqMax(adjusted_coords, 1) + CIRCLE_RADIUS)
        packing_height == Fl(SeqMax(adjusted_coords, 2) + CIRCLE_RADIUS)
    IN  Max(packing_width, packing_height)

\* What a run of load_coords_106_circles yields: the value it returns
\* (coords, side), the messages it shows, and whether an exception left it
\* instead of a value.
Returned(coords, side, msgs) ==
    [coords |-> coords, side |-> side, msgs |-> msgs, raised |-> FALSE]

Escaped(msgs) ==
    [coords |-> << >>, side |-> 0, msgs |-> msgs, raised |-> TRUE]

\* src/app.py:74-77
NotFoundResult ==
    Returned(<< >>, 0, << "error: Data file not found", "info: Please download the file" >>)

\* A slip in src/app.py:81: the empty file is reported as a missing one.
EmptyFileAsNotFound == NotFoundResult

\* src/app.py:80-82
EmptyFileResult == Returned(<< >>, 0, << "error: Data file is empty" >>)

\* src/app.py:89-92
LoadErrorResult ==
    Returned(<< >>, 0, << "error: Error loading data file", "error: Please re-download it" >>)

\* src/app.py:95-97
BadShapeResult == Returned(<< >>, 0, << "error: Expected 2 columns" >>)

\* src/app.py:100-101
CountWarning(raw_coords) ==
    IF Len(raw_coords) # EXPECTED_COUNT
    THEN << "warning: expected 106 lines" >> ELSE << >>

\* src/app.py:67-127
load_coords_106_circles(f, emptyCols) ==
    IF ~Exists(f) THEN NotFoundResult
    ELSE IF GetSize(f) = 0 THEN EmptyFileResult
    ELSE LET t == LoadTxtUsecols(f, emptyCols) IN
         IF t.raised THEN LoadErrorResult
         ELSE IF t.ncols # 2 THEN BadShapeResult
         ELSE IF Len(t.rows) = 0
              \* np.min of an empty column raises ValueError, outside the try
              THEN Escaped(CountWarning(t.rows))
         ELSE LET adjusted_coords == AdjustCoords(t.rows)
              IN  Returned(adjusted_coords, PackingSideActual(adjusted_coords),
                           CountWarning(t.rows))

\* ----------------------------------------------------------- the renderer

NoFigure == [shown |-> FALSE, offset |-> 0, inner |-> FALSE, circles |-> << >>]

\* src/app.py:137-138
PlotOffset(packing_side) ==
    LET actual_packing_dim == Min(packing_side, SQUARE_SIDE)
    IN  Fl(SQUARE_SIDE - actual_packing_dim) \div 2

\* src/app.py:131-185: the figure plot_circles draws
plot_circles(cs, side) ==
    LET offset == PlotOffset(side)
    IN  [shown |-> TRUE,
         offset |-> offset,
         inner |-> Min(side, SQUARE_SIDE) < SQUARE_SIDE,
         circles |-> [ i \in 1 .. Len(cs) |->
                         << Fl(cs[i][1] + offset), Fl(cs[i][2] + offset) >> ]]

\* ------------------------------------------------- src/plot_packing.py

AllNumeric(l) == \A k \in 1 .. Len(l) : l[k].num

\* src/plot_packing.py:33-34
PlotPackingOffset == Fl(SQUARE_SIDE - SOLUTION_SIDE_MINIMAL) \div 2

PPResult(status, circles) == [status |-> status, circles |-> circles]

NoPP == PPResult("none", << >>)

\* len(coordinates) != 106, src/plot_packing.py:21
CountMismatch(n) == n # EXPECTED_COUNT

\* src/plot_packing.py:17-72, the whole script.  np.loadtxt(DATA_FILE)
\* converts every column and squeezes the array: one row of c columns has
\* length c.  A missing file is an IOError (exit); a token that is no number
\* or rows of different widths are a ValueError, which nothing catches; a row
\* count other than 106 prints an error and calls sys.exit(); a row that is
\* no (x, y) pair fails to unpack at line 63.
plot_packing(f) ==
    LET d == DataLines(f)
        n == Len(d)
        c == IF n = 0 THEN 0 ELSE Len(d[1])
        length == IF n = 1 THEN c ELSE n
    IN  IF ~Exists(f) THEN PPResult("exit", << >>)
        ELSE IF \E i \in 1 .. n : ~AllNumeric(d[i]) \/ Len(d[i]) # c
             THEN PPResult("raised", << >>)
        ELSE IF n = 1 /\ c = 1 THEN PPResult("raised", << >>)
        ELSE IF CountMismatch(length) THEN PPResult("exit", << >>)
        ELSE IF n = 1 \/ c # 2 THEN PPResult("raised", << >>)
        ELSE PPResult("shown",
                      [ i \in 1 .. n |->
                          << Fl(ParseFloat(d[i][1]) + PlotPackingOffset),
                             Fl(ParseFloat(d[i][2]) + PlotPackingOffset) >> ])

\* ------------------------------------------------------------ the state

VARIABLES
    file,          \* the coordinate file the scripts read
    pc,            \* "idle", "display", "done", "error" (an exception ended the run), "pp_done"
    option,        \* the radio button's value: "none", "100", "105", "106"
    coords,        \* src/app.py:213
    packing_side,  \* src/app.py:214
    num_circles,   \* src/app.py:215
    messages,      \* what st.error, st.info, st.warning and st.subheader showed, in order
    figure,        \* what plot_circles drew
    pp,            \* the outcome of a run of plot_packing.py
    prev           \* history: the last failure load_coords_106_circles returned in an earlier run

vars == << file, pc, option, coords, packing_side, num_circles, messages, figure, pp, prev >>

run_vars == << option, coords, packing_side, num_circles, messages, figure >>

\* The kind of failure the coordinate file stands for, in the terms of the
\* specification's taxonomy; "NoData" is a file of blank lines only.
FileKind(f) ==
    IF ~f.exists THEN "NotFound"
    ELSE IF f.lines = << >> THEN "EmptyFile"
    ELSE IF \E i \in 1 .. Len(f.lines) :
              LET l == f.lines[i]
              IN  Len(l) > 0 /\ (Len(l) < 3 \/ ~l[2].num \/ ~l[3].num)
         THEN "ParseError"
    ELSE IF \A i \in 1 .. Len(f.lines) : f.lines[i] = << >> THEN "NoData"
    ELSE "Valid"

NoPrev == [kind |-> "none", coords |-> << >>, side |-> 0, msgs |-> << >>]

\* src/app.py:213-217: the values every run of the page starts from
Init ==
    /\ file = NoFile
    /\ pc = "idle"
    /\ option = "none"
    /\ coords = << >>
    /\ packing_side = SQUARE_SIDE
    /\ num_circles = 0
    /\ messages = << >>
    /\ figure = NoFigure
    /\ pp = NoPP
    /\ prev = NoPrev

\* ----------------------------------------- the user, between two runs

RemoveFile ==
    /\ pc = "idle"
    /\ file.exists
    /\ file' = NoFile
    /\ UNCHANGED << pc, run_vars, pp, prev >>

TruncateFile ==
    /\ pc = "idle"
    /\ file # [exists |-> TRUE, lines |-> << >>]
    /\ file' = [exists |-> TRUE, lines |-> << >>]
    /\ UNCHANGED << pc, run_vars, pp, prev >>

AppendLine ==
    /\ pc = "idle"
    /\ file.exists
    /\ Len(file.lines) < MaxLines
    /\ \E l \in UserLines : file' = [file EXCEPT !.lines = Append(@, l)]
    /\ UNCHANGED << pc, run_vars, pp, prev >>

Download ==
    /\ pc = "idle"
    /\ \E cols \in {2, 3} :
          /\ file # [exists |-> TRUE, lines |-> ReferenceLines(cols)]
          /\ file' = [exists |-> TRUE, lines |-> ReferenceLines(cols)]
    /\ UNCHANGED << pc, run_vars, pp, prev >>

\* ------------------------------------------------------ src/app.py, a run

\* src/app.py:219-221
Select100 ==
    /\ pc = "idle"
    /\ option' = "100"
    /\ coords' = generate_coords_100_circles.coords
    /\ packing_side' = generate_coords_100_circles.side
    /\ num_circles' = 100
    /\ pc' = "display"
    /\ UNCHANGED << file, messages, figure, pp, prev >>

\* src/app.py:229-231
Select105 ==
    /\ pc = "idle"
    /\ option' = "105"
    /\ coords' = generate_coords_105_circles.coords
    /\ packing_side' = generate_coords_105_circles.side
    /\ num_circles' = 105
    /\ pc' = "display"
    /\ UNCHANGED << file, messages, figure, pp, prev >>

\* src/app.py:239-241.  An exception that leaves load_coords_106_circles
\* ends the run of the script: nothing below line 240 executes.
Select106 ==
    /\ pc = "idle"
    /\ option' = "106"
    /\ \E emptyCols \in {1, 2} :
          LET r == load_coords_106_circles(file, emptyCols)
          IN  /\ messages' = r.msgs
              /\ IF r.raised
                 THEN /\ pc' = "error"
                      /\ UNCHANGED << coords, packing_side, num_circles >>
                 ELSE /\ pc' = "display"
                      /\ coords' = r.coords
                      /\ packing_side' = r.side
                      /\ num_circles' = Len(r.coords)
    /\ UNCHANGED << file, figure, pp, prev >>

\* A slip in src/app.py:254: >= for >.
HasCirclesOrNone(cs) == Len(cs) >= 0

\* len(coords) > 0, src/app.py:254
HasCircles(cs) == Len(cs) > 0

\* src/app.py:254-269
DisplayPlot ==
    /\ pc = "display"
    /\ HasCircles(coords)
    /\ figure' = plot_circles(coords, packing_side)
    /\ messages' = messages \o << "subheader: Displaying", "info: Key" >>
    /\ pc' = "done"
    /\ UNCHANGED << file, option, coords, packing_side, num_circles, pp, prev >>

\* src/app.py:270-272
DisplayWarning ==
    /\ pc = "display"
    /\ ~HasCircles(coords)
    /\ messages' = messages \o << "warning: Could not display the selected solution" >>
    /\ pc' = "done"
    /\ UNCHANGED << file, option, coords, packing_side, num_circles, figure, pp, prev >>

\* src/plot_packing.py, one run of the script
RunPlotPacking ==
    /\ pc = "idle"
    /\ pp' = plot_packing(file)
    /\ pc' = "pp_done"
    /\ UNCHANGED << file, run_vars, prev >>

\* The run is over; the next interaction starts the script again from
\* src/app.py:213-217.  The history keeps the failure the loader returned.
Rerun ==
    /\ pc \in {"done", "error", "pp_done"}
    /\ pc' = "idle"
    /\ option' = "none"
    /\ coords' = << >>
    /\ packing_side' = SQUARE_SIDE
    /\ num_circles' = 0
    /\ messages' = << >>
    /\ figure' = NoFigure
    /\ pp' = NoPP
    /\ prev' = IF pc = "done" /\ option = "106" /\ ~figure.shown
               THEN [kind |-> FileKind(file), coords |-> coords,
                     side |-> packing_side, msgs |-> messages]
               ELSE prev
    /\ UNCHANGED file

Next ==
    \/ RemoveFile
    \/ TruncateFile
    \/ AppendLine
    \/ Download
    \/ Select100
    \/ Select105
    \/ Select106
    \/ DisplayPlot
    \/ DisplayWarning
    \/ RunPlotPacking
    \/ Rerun

Spec == Init /\ [][Next]_vars

\* ------------------------------------------------------------ the claims

\* The loader was called in this run and the run has gone past the call.
LoaderCalled == option = "106" /\ pc \in {"display", "done", "error"}

\* The loader returned a value (no exception left it).
LoaderReturned == option = "106" /\ pc \in {"display", "done"}

\* The loader returned a packing with circles.
LoaderSucceeded == LoaderReturned /\ Len(coords) > 0

\* The rows np.loadtxt read for the file, before the adjustment.
RawCoords == LoadTxtUsecols(file, 2).rows

\* C1: whatever the state of the coordinate file, load_coords_106_circles
\* returns a value, the empty packing with side 0 or a packing with
\* circles, and no exception leaves it.
C1_LoaderAlwaysReturns ==
    LoaderCalled =>
        /\ pc # "error"
        /\ \/ coords = << >> /\ packing_side = 0
           \/ Len(coords) > 0 /\ packing_side > 0

FailureKinds == {"NotFound", "EmptyFile", "ParseError"}

\* Two runs, this one and an earlier one, in which the loader failed for
\* files of two different kinds among NotFound, EmptyFile and ParseError.
TwoFailureKinds ==
    /\ LoaderReturned
    /\ FileKind(file) \in FailureKinds
    /\ prev.kind \in FailureKinds
    /\ prev.kind # FileKind(file)

FirstMessageOf(kind) ==
    CASE kind = "NotFound" -> "error: Data file not found"
      [] kind = "EmptyFile" -> "error: Data file is empty"
      [] kind = "ParseError" -> "error: Error loading data file"

ValidRows(f) ==
    LET d == DataLines(f)
    IN  /\ f.exists
        /\ Len(d) >= 1
        /\ \A i \in 1 .. Len(d) : AllNumeric(d[i]) /\ Len(d[i]) = Len(d[1])

\* C3: in every loading path a row count other than 106 is only a warning:
\* a file of N valid rows (N # 106, N >= 1) is loaded with N circles, these
\* are drawn, and the process is not terminated.
C3_CountMismatchNonFatal ==
    /\ pc = "done" /\ option = "106" /\ FileKind(file) = "Valid"
          /\ Len(DataLines(file)) # EXPECTED_COUNT =>
          /\ Len(coords) = Len(DataLines(file))
          /\ figure.shown
          /\ Len(figure.circles) = Len(DataLines(file))
    /\ pc = "pp_done" /\ ValidRows(file) /\ Len(DataLines(file)) # EXPECTED_COUNT =>
          pp.status # "exit"

\* C4: after a successful load the smallest x' and the smallest y' equal the
\* radius, no coordinate is below the radius, and the differences between
\* centers are those of the raw data.
C4_NormalizedExactly ==
    LoaderSucceeded =>
        /\ SeqMin(coords, 1) = CIRCLE_RADIUS
        /\ SeqMin(coords, 2) = CIRCLE_RADIUS
        /\ \A i \in 1 .. Len(coords) :
              coords[i][1] >= CIRCLE_RADIUS /\ coords[i][2] >= CIRCLE_RADIUS
        /\ Len(coords) = Len(RawCoords)
        /\ \A i, j \in 1 .. Len(coords) :
              /\ coords[i][1] - coords[j][1] = RawCoords[i][1] - RawCoords[j][1]
              /\ coords[i][2] - coords[j][2] = RawCoords[i][2] - RawCoords[j][2]

HexReturned == option = "105" /\ pc \in {"display", "done"}

\* The indices of the centers that lie in row i of the hexagonal packing.
InHexRow(i) ==
    { k \in 1 .. Len(coords) : coords[k][2] = i * row_height + CIRCLE_RADIUS }

C7_HexDiscsInsideReturnedBox ==
    HexReturned =>
        /\ packing_side = 10 * row_height + CIRCLE_DIAMETER
        /\ \A k \in 1 .. Len(coords) :
              /\ coords[k][1] - CIRCLE_RADIUS >= 0
              /\ coords[k][1] + CIRCLE_RADIUS <= packing_side
              /\ coords[k][2] - CIRCLE_RADIUS >= 0
              /\ coords[k][2] + CIRCLE_RADIUS <= packing_side

GridReturned == option = "100" /\ pc \in {"display", "done"}

\* C8: the grid generator returns 100 centers, the one of (row, col) at
\* x = col*D + D/2, y = row*D + D/2 for row, col in 0..9, all within
\* [0.5, 9.5] on both axes and distinct, with the dimension 10.0.
C8_GridCentersAndSide ==
    GridReturned =>
        /\ Len(coords) = 100
        /\ num_circles = Len(coords)
        /\ { coords[k] : k \in 1 .. Len(coords) }
              = { << col * CIRCLE_DIAMETER + CIRCLE_RADIUS,
                     row * CIRCLE_DIAMETER + CIRCLE_RADIUS >> : row \in 0 .. 9, col \in 0 .. 9 }
        /\ \A k \in 1 .. Len(coords) : \A a \in 1 .. 2 :
              /\ coords[k][a] >= CIRCLE_RADIUS
              /\ coords[k][a] <= SQUARE_SIDE - CIRCLE_RADIUS
        /\ Cardinality({ coords[k] : k \in 1 .. Len(coords) }) = Len(coords)
        /\ packing_side = 10 * CIRCLE_DIAMETER
        /\ packing_side = SQUARE_SIDE

C8_Witness == GridReturned /\ pc = "done" /\ figure.shown

CouldNotDisplay == "warning: Could not display the selected solution"

\* The loader took one of its four failure returns: its first message is
\* the error of a missing, empty, unparsable or malformed file.
LoaderFailed ==
    /\ LoaderReturned
    /\ Len(messages) > 0
    /\ messages[1] \in { "error: Data file not found", "error: Data file is empty",
                         "error: Error loading data file", "error: Expected 2 columns" }

TrueExtent(cs, a) == (SeqMax(cs, a) + CIRCLE_RADIUS) - (SeqMin(cs, a) - CIRCLE_RADIUS)

\* C10: when the bounding box of the rendered packing fits the 10x10
\* square, every disc plot_circles draws lies inside [0, 10] x [0, 10].
C10_DrawnDiscsInsideSquare ==
    figure.shown /\ TrueExtent(coords, 1) <= SQUARE_SIDE
                 /\ TrueExtent(coords, 2) <= SQUARE_SIDE =>
        \A k \in 1 .. Len(figure.circles) : \A a \in 1 .. 2 :
            /\ figure.circles[k][a] - CIRCLE_RADIUS >= 0
            /\ figure.circles[k][a] + CIRCLE_RADIUS <= SQUARE_SIDE

=============================================================================
